---- MODULE Spec2Model ----
(***************************************************************************)
(* A model of srt_trans.py: the SRT parser, the batch planner, the marker  *)
(* protocol, the resume locator, the bilingual writer and the concurrent   *)
(* orchestrator (main) that reorders batch completions.                    *)
(*                                                                         *)
(* Text is a sequence of tokens.  A token is one character or an atomic    *)
(* run of characters ("-->", a code fence, a whole marker); "\n" is the line      *)
(* break and " " is a blank.  Python's str operations are modelled on the  *)
(* token sequence: splitlines, strip, rstrip, join, len, int, isdigit.     *)
(***************************************************************************)
EXTENDS Integers, Sequences, FiniteSets, TLC

NL == "\n"
SP == " "
ARROW == "-->"
\* The code fence of three backquotes; a TLA+ string cannot hold a backquote.
FENCE == "~~~"
Digits == <<"0", "1", "2", "3", "4", "5", "6", "7", "8", "9">>

\* ------------------------------------------------------------------------
\* Python str primitives on token sequences
\* ------------------------------------------------------------------------

IsSpace(t) == t \in {SP, NL}

IsDigitTok(t) == \E d \in 1..10 : Digits[d] = t

DigitVal(t) == (CHOOSE d \in 1..10 : Digits[d] = t) - 1

RECURSIVE lstrip(_)
lstrip(s) == IF s # <<>> /\ IsSpace(Head(s)) THEN lstrip(Tail(s)) ELSE s

RECURSIVE rstrip(_)
rstrip(s) ==
    IF s # <<>> /\ IsSpace(s[Len(s)]) THEN rstrip(SubSeq(s, 1, Len(s) - 1)) ELSE s

strip(s) == rstrip(lstrip(s))

\* str.splitlines(): the lines between line breaks; a final line break opens
\* no further (empty) line, and the empty text has no line.
RECURSIVE splitlines_from(_, _, _)
splitlines_from(s, i, cur) ==
    IF i > Len(s) THEN (IF cur = <<>> THEN <<>> ELSE <<cur>>)
    ELSE IF s[i] = NL THEN <<cur>> \o splitlines_from(s, i + 1, <<>>)
    ELSE splitlines_from(s, i + 1, Append(cur, s[i]))

splitlines(s) == splitlines_from(s, 1, <<>>)

\* "\n".join(lines)
RECURSIVE join_nl(_)
join_nl(ls) ==
    IF ls = <<>> THEN <<>>
    ELSE IF Len(ls) = 1 THEN ls[1]
    ELSE ls[1] \o <<NL>> \o join_nl(Tail(ls))

\* len(s) in characters: a token counts as many characters as it holds.
RECURSIVE char_len(_)
char_len(s) == IF s = <<>> THEN 0 ELSE Len(Head(s)) + char_len(Tail(s))

\* str.isdigit(): non-empty and every character a digit.
isdigit(s) == s # <<>> /\ \A i \in 1..Len(s) : IsDigitTok(s[i])

\* int(s) for a string of digits (the caller strips it first).
RECURSIVE int_of(_)
int_of(s) ==
    IF s = <<>> THEN 0 ELSE 10 * int_of(SubSeq(s, 1, Len(s) - 1)) + DigitVal(s[Len(s)])

\* f"{n}" for n >= 0.
RECURSIVE str_of(_)
str_of(n) == IF n < 10 THEN <<Digits[n + 1]>> ELSE str_of(n \div 10) \o <<Digits[(n % 10) + 1]>>

RECURSIVE flatten(_)
flatten(ss) == IF ss = <<>> THEN <<>> ELSE Head(ss) \o flatten(Tail(ss))

\* ------------------------------------------------------------------------
\* SRT: parse_srt, write_bi_srt_line
\* ------------------------------------------------------------------------

SrtBlock(idx, time, lines) == [idx |-> idx, time |-> time, lines |-> lines]

ids_of(bs) == [k \in 1..Len(bs) |-> bs[k].idx]

\* int(lines[i].strip()) raises ValueError unless the stripped line is numeric.
is_int(l) == isdigit(strip(l))

\* The scan of parse_srt from line i with the blocks found so far.  The result
\* is [ok |-> TRUE, blocks |-> ...] or [ok |-> FALSE, err |-> the exception].
RECURSIVE take_text(_, _)
take_text(lines, i) ==
    IF i <= Len(lines) /\ strip(lines[i]) # <<>> THEN take_text(lines, i + 1) ELSE i

RECURSIVE skip_blank(_, _)
skip_blank(lines, i) ==
    IF i <= Len(lines) /\ strip(lines[i]) = <<>> THEN skip_blank(lines, i + 1) ELSE i

RECURSIVE parse_from(_, _, _)
parse_from(lines, i, blocks) ==
    IF i > Len(lines) THEN [ok |-> TRUE, blocks |-> blocks, err |-> "none"]
    ELSE IF strip(lines[i]) = <<>> THEN parse_from(lines, i + 1, blocks)
    ELSE IF ~is_int(lines[i]) THEN [ok |-> FALSE, blocks |-> <<>>, err |-> "ValueError"]
    ELSE IF i + 1 > Len(lines) THEN [ok |-> FALSE, blocks |-> <<>>, err |-> "IndexError"]
    ELSE LET idx == int_of(strip(lines[i]))
             t   == strip(lines[i + 1])
             j   == take_text(lines, i + 2)
             txt == SubSeq(lines, i + 2, j - 1)
         IN  parse_from(lines, skip_blank(lines, j), Append(blocks, SrtBlock(idx, t, txt)))

parse_srt(s) == parse_from(splitlines(s), 1, <<>>)

\* The text one call of write_bi_srt_line appends to the file.
write_lines(ls) == flatten([k \in 1..Len(ls) |-> ls[k] \o <<NL>>])

\* Mutant of write_bi_srt_line: the original lines are written above the
\* translated lines.
write_bi_srt_line_orig_first(b, zh_lines) ==
    str_of(b.idx) \o <<NL>> \o b.time \o <<NL>>
        \o write_lines(b.lines) \o write_lines(zh_lines) \o <<NL>>

\* Mutant of write_bi_srt_line: the blank separator line is not written.
write_bi_srt_line_no_sep(b, zh_lines) ==
    str_of(b.idx) \o <<NL>> \o b.time \o <<NL>>
        \o write_lines(zh_lines) \o write_lines(b.lines)

write_bi_srt_line(b, zh_lines) ==
    str_of(b.idx) \o <<NL>> \o b.time \o <<NL>>
        \o write_lines(zh_lines) \o write_lines(b.lines) \o <<NL>>

\* ------------------------------------------------------------------------
\* Marker protocol: mk_mark, mk_batch_text, MARK_RE, parse_zh_map
\* ------------------------------------------------------------------------

MARK_OPEN == "<<<SRT:"
MARK_CLOSE == ">>>"

\* f"{idx:06d}": at least six digits, padded with zeros on the left.
RECURSIVE pad6(_)
pad6(ds) == IF Len(ds) >= 6 THEN ds ELSE pad6(<<"0">> \o ds)

mk_mark(idx) == <<MARK_OPEN>> \o pad6(str_of(idx)) \o <<MARK_CLOSE>>

RECURSIVE mk_batch_lines(_)
mk_batch_lines(blocks) ==
    IF blocks = <<>> THEN <<>>
    ELSE LET b == Head(blocks)
         IN  <<mk_mark(b.idx)>> \o (IF b.lines # <<>> THEN b.lines ELSE << <<>> >>)
                 \o mk_batch_lines(Tail(blocks))

mk_batch_text(blocks) == join_nl(mk_batch_lines(blocks)) \o <<NL>>

\* MARK_RE matches at p: the opening, exactly six digits, the closing.
mark_at(s, p) ==
    /\ p + 7 <= Len(s)
    /\ s[p] = MARK_OPEN
    /\ \A k \in 1..6 : IsDigitTok(s[p + k])
    /\ s[p + 7] = MARK_CLOSE

\* list(MARK_RE.finditer(s)): the start of every match, left to right.
RECURSIVE finditer(_, _)
finditer(s, p) ==
    IF p > Len(s) THEN <<>>
    ELSE IF mark_at(s, p) THEN <<p>> \o finditer(s, p + 8)
    ELSE finditer(s, p + 1)

\* x.strip().startswith(the code fence)
is_fence_line(l) == strip(l) # <<>> /\ Head(strip(l)) = FENCE

not_fence_line(l) == ~is_fence_line(l)

not_blank_line(l) == strip(l) # <<>>

zh_keep_line(l) == not_blank_line(l) /\ not_fence_line(l)

rstrip_all(ls) == [k \in 1..Len(ls) |-> rstrip(ls[k])]

\* Mutant of map_put: a key the mapping holds keeps its first value.
map_put_first(m, k, v) ==
    [j \in DOMAIN m \cup {k} |-> IF j \in DOMAIN m THEN m[j] ELSE v]

map_put(m, k, v) == [j \in DOMAIN m \cup {k} |-> IF j = k THEN v ELSE m[j]]

RECURSIVE zh_map_from(_, _, _, _)
zh_map_from(cleaned, marks, i, out) ==
    IF i > Len(marks) THEN out
    ELSE LET idx       == int_of(SubSeq(cleaned, marks[i] + 1, marks[i] + 6))
             seg_start == marks[i] + 8
             seg_end   == IF i + 1 <= Len(marks) THEN marks[i + 1] ELSE Len(cleaned) + 1
             seg       == strip(SubSeq(cleaned, seg_start, seg_end - 1))
             lines     == rstrip_all(SelectSeq(splitlines(seg), not_blank_line))
         IN  zh_map_from(cleaned, marks, i + 1, map_put(out, idx, lines))

parse_zh_map(content) ==
    LET cleaned == join_nl(SelectSeq(splitlines(content), not_fence_line))
    IN  zh_map_from(cleaned, finditer(cleaned, 1), 1, <<>>)

\* translate_one on the service's reply: the non-blank, non-fence lines.
translate_one_lines(content) == rstrip_all(SelectSeq(splitlines(content), zh_keep_line))

\* Mutant of missing_blocks: the first missing block is skipped.
missing_blocks_tail(blocks, zh_map) ==
    LET m == SelectSeq(blocks, LAMBDA b : b.idx \notin DOMAIN zh_map)
    IN  IF m = <<>> THEN m ELSE Tail(m)

\* missing = sorted(need - got), walked in block order by translate_batch.
missing_blocks(blocks, zh_map) ==
    SelectSeq(blocks, LAMBDA b : b.idx \notin DOMAIN zh_map)

\* ------------------------------------------------------------------------
\* Batch planner: split_batches
\* ------------------------------------------------------------------------

PER_BLOCK_OVERHEAD == 32

add_chars(b) == char_len(join_nl(b.lines)) + PER_BLOCK_OVERHEAD

RECURSIVE split_from(_, _, _, _, _, _)
split_from(blocks, max_blocks, max_chars, batches, cur, cur_chars) ==
    IF blocks = <<>> THEN (IF cur # <<>> THEN Append(batches, cur) ELSE batches)
    ELSE LET b          == Head(blocks)
             hit_blocks == cur # <<>> /\ Len(cur) >= max_blocks
             hit_chars  == cur # <<>> /\ (cur_chars + add_chars(b)) > max_chars
         IN  IF hit_blocks \/ hit_chars
             THEN split_from(Tail(blocks), max_blocks, max_chars,
                             Append(batches, cur), <<b>>, add_chars(b))
             ELSE split_from(Tail(blocks), max_blocks, max_chars,
                             batches, Append(cur, b), cur_chars + add_chars(b))

\* Mutant of split_batches: the batch still open at the end is not appended.
split_batches_no_tail(blocks, max_blocks, max_chars) ==
    LET r == split_from(blocks, max_blocks, max_chars, <<>>, <<>>, 0)
    IN  IF r = <<>> THEN r ELSE SubSeq(r, 1, Len(r) - 1)

\* Mutant of split_batches: the count test is len(cur) > max_blocks.
RECURSIVE split_from_gt(_, _, _, _, _, _)
split_from_gt(blocks, max_blocks, max_chars, batches, cur, cur_chars) ==
    IF blocks = <<>> THEN (IF cur # <<>> THEN Append(batches, cur) ELSE batches)
    ELSE LET b          == Head(blocks)
             hit_blocks == cur # <<>> /\ Len(cur) > max_blocks
             hit_chars  == cur # <<>> /\ (cur_chars + add_chars(b)) > max_chars
         IN  IF hit_blocks \/ hit_chars
             THEN split_from_gt(Tail(blocks), max_blocks, max_chars,
                                Append(batches, cur), <<b>>, add_chars(b))
             ELSE split_from_gt(Tail(blocks), max_blocks, max_chars,
                                batches, Append(cur, b), cur_chars + add_chars(b))

\* Mutant of split_batches: the budget test is (cur_chars + add_chars) >= max_chars.
RECURSIVE split_from_ge(_, _, _, _, _, _)
split_from_ge(blocks, max_blocks, max_chars, batches, cur, cur_chars) ==
    IF blocks = <<>> THEN (IF cur # <<>> THEN Append(batches, cur) ELSE batches)
    ELSE LET b          == Head(blocks)
             hit_blocks == cur # <<>> /\ Len(cur) >= max_blocks
             hit_chars  == cur # <<>> /\ (cur_chars + add_chars(b)) >= max_chars
         IN  IF hit_blocks \/ hit_chars
             THEN split_from_ge(Tail(blocks), max_blocks, max_chars,
                                Append(batches, cur), <<b>>, add_chars(b))
             ELSE split_from_ge(Tail(blocks), max_blocks, max_chars,
                                batches, Append(cur, b), cur_chars + add_chars(b))

split_batches_chars_ge(blocks, max_blocks, max_chars) ==
    split_from_ge(blocks, max_blocks, max_chars, <<>>, <<>>, 0)

split_batches_gt(blocks, max_blocks, max_chars) ==
    split_from_gt(blocks, max_blocks, max_chars, <<>>, <<>>, 0)

split_batches(blocks, max_blocks, max_chars) ==
    split_from(blocks, max_blocks, max_chars, <<>>, <<>>, 0)

\* ------------------------------------------------------------------------
\* Resume locator: last_idx_in_srt
\* ------------------------------------------------------------------------

has_arrow(l) == \E k \in 1..Len(l) : l[k] = ARROW

RECURSIVE last_idx_from(_, _, _)
last_idx_from(lines, i, last) ==
    IF i > Len(lines) - 1 THEN last
    ELSE IF isdigit(strip(lines[i])) /\ has_arrow(lines[i + 1])
         THEN last_idx_from(lines, i + 1, int_of(strip(lines[i])))
         ELSE last_idx_from(lines, i + 1, last)

last_idx_in_srt(text) == last_idx_from(splitlines(text), 1, 0)

\* ------------------------------------------------------------------------
\* State
\* ------------------------------------------------------------------------

VARIABLES
    in_srt,      \* the text of the input file
    cfg,         \* max_blocks, max_chars, max_workers of the configuration
    out_srt,     \* the output file: [exists, text]
    pc,          \* where main is: idle, collecting, aborting, aborted, done, ...
    blocks,      \* main's blocks: the parsed input
    done,        \* main's done: the resume point of this run
    batches,     \* main's batches: the plan of this run
    fut,         \* one record per submitted batch: the worker and its future
    pending,     \* main's pending: sequence index -> zh_map
    next_write,  \* main's next_write (0-based, as in the code)
    written,     \* history: the unit ids handed to write_bi_srt_line in this run
    prior,       \* history: the output file as this run found it
    on_disk,     \* history: the unit ids whose blocks the output file holds
    nrun,        \* history: runs started
    naborts      \* history: runs that ended on a transport failure

vars == <<in_srt, cfg, out_srt, pc, blocks, done, batches, fut, pending,
          next_write, written, prior, on_disk, nrun, naborts>>

\* ------------------------------------------------------------------------
\* Bounds and the inputs drawn from them
\* ------------------------------------------------------------------------

MaxUnits == 3
MaxWorkers == 2
MaxRuns == 2

TIME == <<"t", SP, ARROW, SP, "t">>

\* The text sections a unit of the pipeline's input may have: none, a plain
\* line, or two lines that read like an index line and a timing line.
HI == <<"h", "i">>
PlainTexts == { <<>>, <<HI>> }

IndexLikeTexts ==
    { << <<"0">>, <<"a", SP, ARROW, SP, "b">> >>,
      << <<"2">>, <<"a", SP, ARROW, SP, "b">> >> }

\* Strictly increasing unit ids, not necessarily contiguous.
IdSeqs ==
    { ids \in UNION { [1..n -> 1..MaxUnits] : n \in 1..MaxUnits } :
        \A k \in 1..(Len(ids) - 1) : ids[k] < ids[k + 1] }

\* The text sections of n units: at most one of them is index-like.
TextSeqs(n) ==
    { txt \in [1..n -> PlainTexts \cup IndexLikeTexts] :
        Cardinality({k \in 1..n : txt[k] \in IndexLikeTexts}) <= 1 }

UnitSeqs ==
    UNION { { [k \in 1..Len(ids) |-> SrtBlock(ids[k], TIME, txt[k])] :
                txt \in TextSeqs(Len(ids)) } : ids \in IdSeqs }

\* A well-formed input file holding the given units.
srt_block_text(b) == str_of(b.idx) \o <<NL>> \o b.time \o <<NL>> \o write_lines(b.lines) \o <<NL>>

srt_text(units) == flatten([k \in 1..Len(units) |-> srt_block_text(units[k])])

InputTexts == { srt_text(u) : u \in UnitSeqs }

Cfgs ==
    [max_blocks : {1, 2}, max_chars : {1000}, max_workers : 1..MaxWorkers]

\* ------------------------------------------------------------------------
\* The translation service: what a call may return
\* ------------------------------------------------------------------------

\* The translation the service gives unit idx.
zh_of(idx) == <<"z">> \o str_of(idx)

resp_entry(idx, line) == mk_mark(idx) \o <<NL>> \o line \o <<NL>>

RECURSIVE resp_entries(_)
resp_entries(bs) ==
    IF bs = <<>> THEN <<>>
    ELSE resp_entry(Head(bs).idx, zh_of(Head(bs).idx)) \o resp_entries(Tail(bs))

RECURSIVE reverse(_)
reverse(xs) == IF xs = <<>> THEN <<>> ELSE Append(reverse(Tail(xs)), Head(xs))

\* Replies to a batch request: every marker in order; the first unit's marker
\* left out; no marker at all; and a reply in a code fence that repeats the
\* first unit's marker, lists the markers in reverse order and holds a marker
\* of a unit outside the batch.
BatchReplies(batch) ==
    { resp_entries(batch),
      resp_entries(Tail(batch)),
      <<"n", "i", NL>>,
      <<FENCE, NL>> \o resp_entry(Head(batch).idx, <<"y">>)
          \o resp_entries(reverse(batch))
          \o resp_entry(batch[Len(batch)].idx + 1, <<"x">>) \o <<FENCE, NL>> }

\* Replies to a single-unit request: a line, or nothing but a blank line.
OneReplies(b) == { zh_of(b.idx) \o <<SP, NL>>, <<SP, NL>> }

\* ------------------------------------------------------------------------
\* Workers: run_batch, translate_batch, translate_one
\* ------------------------------------------------------------------------

NoMap == <<>>

queued_future ==
    [st |-> "queued", zh_map |-> NoMap, missing |-> <<>>, got |-> {}, ones |-> <<>>]

\* Workers in flight: inside run_batch, from the batch request to the end of
\* the pause.
in_flight(f) == f.st \in {"batch_call", "fallback_call", "pause"}

n_in_flight == Cardinality({i \in DOMAIN fut : in_flight(fut[i])})

\* translate_batch's loop over the missing blocks, up to its next blocking
\* request: translate_one answers a block without text lines at once, with [].
RECURSIVE fallback_loop(_)
fallback_loop(f) ==
    IF f.missing = <<>> THEN [f EXCEPT !.st = "pause"]
    ELSE LET b == Head(f.missing)
         IN  IF b.lines = <<>>
             THEN fallback_loop([f EXCEPT !.zh_map = map_put(f.zh_map, b.idx, <<>>),
                                          !.missing = Tail(f.missing),
                                          !.ones = Append(f.ones, [idx |-> b.idx, lines |-> <<>>])])
             ELSE [f EXCEPT !.st = "fallback_call"]

\* The reply to the batch request has come: parse_zh_map, then the fallbacks.
translate_batch(f, batch, content) ==
    LET zh_map == parse_zh_map(content)
    IN  fallback_loop([f EXCEPT !.zh_map = zh_map,
                                !.got = DOMAIN zh_map,
                                !.missing = missing_blocks(batch, zh_map)])

\* The reply to a single-unit request has come: zh_map[b.idx] = translate_one(...).
translate_one(f, content) ==
    LET b     == Head(f.missing)
        lines == translate_one_lines(content)
    IN  fallback_loop([f EXCEPT !.zh_map = map_put(f.zh_map, b.idx, lines),
                                !.missing = Tail(f.missing),
                                !.ones = Append(f.ones, [idx |-> b.idx, lines |-> lines])])

\* Mutant of WorkerStart: the pool starts a thread for every work item.
WorkerStart_unbounded(i) ==
    /\ pc \in {"collecting", "aborting"}
    /\ fut[i].st = "queued"
    /\ \A j \in 1..(i - 1) : fut[j].st # "queued"
    /\ fut' = [fut EXCEPT ![i].st = "batch_call"]
    /\ UNCHANGED <<in_srt, cfg, out_srt, pc, blocks, done, batches, pending,
                   next_write, written, prior, on_disk, nrun, naborts>>

\* A pool thread takes the next work item: the queue is first in, first out,
\* and the pool has max_workers threads.
WorkerStart(i) ==
    /\ pc \in {"collecting", "aborting"}
    /\ fut[i].st = "queued"
    /\ \A j \in 1..(i - 1) : fut[j].st # "queued"
    /\ n_in_flight < cfg.max_workers
    /\ fut' = [fut EXCEPT ![i].st = "batch_call"]
    /\ UNCHANGED <<in_srt, cfg, out_srt, pc, blocks, done, batches, pending,
                   next_write, written, prior, on_disk, nrun, naborts>>

BatchReturn(i) ==
    /\ fut[i].st = "batch_call"
    /\ \E content \in BatchReplies(batches[i]) :
           fut' = [fut EXCEPT ![i] = translate_batch(fut[i], batches[i], content)]
    /\ UNCHANGED <<in_srt, cfg, out_srt, pc, blocks, done, batches, pending,
                   next_write, written, prior, on_disk, nrun, naborts>>

FallbackReturn(i) ==
    /\ fut[i].st = "fallback_call"
    /\ \E content \in OneReplies(Head(fut[i].missing)) :
           fut' = [fut EXCEPT ![i] = translate_one(fut[i], content)]
    /\ UNCHANGED <<in_srt, cfg, out_srt, pc, blocks, done, batches, pending,
                   next_write, written, prior, on_disk, nrun, naborts>>

\* post_chat raises (network error, timeout, non-success status): the exception
\* leaves run_batch and is stored in the future.
CallFail(i) ==
    /\ fut[i].st \in {"batch_call", "fallback_call"}
    /\ fut' = [fut EXCEPT ![i].st = "err"]
    /\ UNCHANGED <<in_srt, cfg, out_srt, pc, blocks, done, batches, pending,
                   next_write, written, prior, on_disk, nrun, naborts>>

\* The pause is over: run_batch returns zh_map and the future holds it.
PauseDone(i) ==
    /\ fut[i].st = "pause"
    /\ fut' = [fut EXCEPT ![i].st = "ok"]
    /\ UNCHANGED <<in_srt, cfg, out_srt, pc, blocks, done, batches, pending,
                   next_write, written, prior, on_disk, nrun, naborts>>

\* ------------------------------------------------------------------------
\* main
\* ------------------------------------------------------------------------

\* Mutant of is_todo: the unit at the resume point is taken again.
is_todo_ge(b, d) == b.idx >= d

\* todo = [b for b in blocks if b.idx > done]
is_todo(b, d) == b.idx > d

\* Mutant of todo_of: the filter is forgotten, every block is todo.
todo_of_all(bs, d) == bs

todo_of(bs, d) == SelectSeq(bs, LAMBDA b : is_todo(b, d))

\* mode = "a" if done else "w": what open() leaves of the file.
open_text(d, f) == IF d # 0 THEN f.text ELSE <<>>

\* Mutant of map_pop: pending[next_write] is read but not removed.
map_pop_keep(m, k) == m

map_pop(m, k) == [j \in DOMAIN m \ {k} |-> m[j]]

\* Mutant of write_batch: the loop runs over the entries of zh_map, writing
\* every input block the reply has a marker for.
write_batch_by_reply(d, bs, zh_map) ==
    LET sel == SelectSeq(blocks, LAMBDA b : b.idx \in DOMAIN zh_map)
    IN  [d EXCEPT !.text = @ \o flatten([k \in 1..Len(sel) |->
                                   write_bi_srt_line(sel[k], zh_map[sel[k].idx])]),
                  !.written = @ \o ids_of(sel)]

\* Mutant of write_batch: only the first block of the batch is written.
write_batch_head(d, bs, zh_map) ==
    IF bs = <<>> THEN d
    ELSE LET b == Head(bs)
         IN  IF b.idx \notin DOMAIN zh_map THEN [d EXCEPT !.raised = TRUE]
             ELSE [d EXCEPT !.text = @ \o write_bi_srt_line(b, zh_map[b.idx]),
                            !.written = Append(@, b.idx)]

\* for b in batches[next_write]: write_bi_srt_line(f, b, zh_map[b.idx]).
\* A missing key raises KeyError after the blocks before it were written.
RECURSIVE write_batch(_, _, _)
write_batch(d, bs, zh_map) ==
    IF bs = <<>> THEN d
    ELSE LET b == Head(bs)
         IN  IF b.idx \notin DOMAIN zh_map THEN [d EXCEPT !.raised = TRUE]
             ELSE write_batch([d EXCEPT !.text = @ \o write_bi_srt_line(b, zh_map[b.idx]),
                                        !.written = Append(@, b.idx)],
                              Tail(bs), zh_map)

\* Mutant of drain: whatever is buffered is written, lowest index first,
\* without waiting for next_write.
RECURSIVE drain_unordered(_)
drain_unordered(d) ==
    IF d.raised \/ DOMAIN d.pending = {} THEN d
    ELSE LET k == CHOOSE j \in DOMAIN d.pending : \A m \in DOMAIN d.pending : j <= m
             w == write_batch([d EXCEPT !.pending = map_pop(d.pending, k)],
                              batches[k + 1], d.pending[k])
         IN  IF w.raised THEN w ELSE drain_unordered([w EXCEPT !.next_write = @ + 1])

\* Mutant of drain: "if next_write in pending" in place of the while loop, so
\* one collected future flushes one batch at most.
drain_once(d) ==
    IF d.raised \/ d.next_write \notin DOMAIN d.pending THEN d
    ELSE LET zh_map == d.pending[d.next_write]
             w      == write_batch([d EXCEPT !.pending = map_pop(d.pending, d.next_write)],
                                   batches[d.next_write + 1], zh_map)
         IN  IF w.raised THEN w ELSE [w EXCEPT !.next_write = @ + 1]

\* while next_write in pending: pop, write the batch, advance.
RECURSIVE drain(_)
drain(d) ==
    IF d.raised \/ d.next_write \notin DOMAIN d.pending THEN d
    ELSE LET zh_map == d.pending[d.next_write]
             w      == write_batch([d EXCEPT !.pending = map_pop(d.pending, d.next_write)],
                                   batches[d.next_write + 1], zh_map)
         IN  IF w.raised THEN w ELSE drain([w EXCEPT !.next_write = @ + 1])

\* Nothing has run yet and there is no output file.
Fresh ==
    /\ out_srt = [exists |-> FALSE, text |-> <<>>]
    /\ pc = "idle"
    /\ done = 0
    /\ batches = <<>>
    /\ fut = <<>>
    /\ pending = NoMap
    /\ next_write = 0
    /\ written = <<>>
    /\ prior = [exists |-> FALSE, text |-> <<>>]
    /\ on_disk = <<>>
    /\ nrun = 0
    /\ naborts = 0

Init ==
    /\ in_srt \in InputTexts
    /\ cfg \in Cfgs
    /\ blocks = <<>>
    /\ Fresh

\* main up to the submission of every batch to the pool.
Start ==
    /\ pc \in {"idle", "done", "aborted"}
    /\ nrun < MaxRuns
    /\ LET p == parse_srt(in_srt)
           d == IF out_srt.exists THEN last_idx_in_srt(out_srt.text) ELSE 0
           todo == todo_of(p.blocks, d)
       IN  /\ nrun' = nrun + 1
           /\ prior' = out_srt
           /\ written' = <<>>
           /\ pending' = NoMap
           /\ next_write' = 0
           /\ IF ~p.ok
              THEN /\ pc' = "crashed"
                   /\ UNCHANGED <<blocks, done, batches, fut, out_srt, on_disk>>
              ELSE /\ blocks' = p.blocks
                   /\ done' = d
                   /\ IF todo = <<>>
                      THEN /\ pc' = "done"
                           /\ batches' = <<>>
                           /\ fut' = <<>>
                           /\ UNCHANGED <<out_srt, on_disk>>
                      ELSE /\ pc' = "collecting"
                           /\ batches' = split_batches(todo, cfg.max_blocks, cfg.max_chars)
                           /\ fut' = [i \in 1..Len(batches') |-> queued_future]
                           /\ out_srt' = [exists |-> TRUE, text |-> open_text(d, out_srt)]
                           /\ on_disk' = IF d # 0 THEN on_disk ELSE <<>>
    /\ UNCHANGED <<in_srt, cfg, naborts>>

\* Mutant of Collect: the exception of a failed future is swallowed and the
\* loop goes on.
Collect_swallow(i) ==
    /\ pc = "collecting"
    /\ fut[i].st \in {"ok", "err"}
    /\ IF fut[i].st = "err"
       THEN /\ fut' = [fut EXCEPT ![i].st = "raised"]
            /\ UNCHANGED <<pc, pending, next_write, out_srt, written, on_disk>>
       ELSE LET d == drain([pending |-> map_put(pending, i - 1, fut[i].zh_map),
                            next_write |-> next_write,
                            text |-> out_srt.text,
                            written |-> written,
                            raised |-> FALSE])
            IN  /\ fut' = [fut EXCEPT ![i] = [queued_future EXCEPT !.st = "collected"]]
                /\ pending' = d.pending
                /\ next_write' = d.next_write
                /\ out_srt' = [out_srt EXCEPT !.text = d.text]
                /\ written' = d.written
                /\ on_disk' = on_disk \o SubSeq(d.written, Len(written) + 1, Len(d.written))
                /\ pc' = IF d.raised THEN "aborting" ELSE "collecting"
    /\ UNCHANGED <<in_srt, cfg, blocks, done, batches, prior, nrun, naborts>>

\* One turn of the as_completed loop on a finished future: fut.result(), then
\* the buffering and the drain.
Collect(i) ==
    /\ pc = "collecting"
    /\ fut[i].st \in {"ok", "err"}
    /\ IF fut[i].st = "err"
       THEN /\ pc' = "aborting"
            /\ fut' = [fut EXCEPT ![i].st = "raised"]
            /\ UNCHANGED <<pending, next_write, out_srt, written, on_disk>>
       ELSE LET d == drain([pending |-> map_put(pending, i - 1, fut[i].zh_map),
                            next_write |-> next_write,
                            text |-> out_srt.text,
                            written |-> written,
                            raised |-> FALSE])
            IN  /\ fut' = [fut EXCEPT ![i] = [queued_future EXCEPT !.st = "collected"]]
                /\ pending' = d.pending
                /\ next_write' = d.next_write
                /\ out_srt' = [out_srt EXCEPT !.text = d.text]
                /\ written' = d.written
                /\ on_disk' = on_disk \o SubSeq(d.written, Len(written) + 1, Len(d.written))
                /\ pc' = IF d.raised THEN "aborting" ELSE "collecting"
    /\ UNCHANGED <<in_srt, cfg, blocks, done, batches, prior, nrun, naborts>>

\* Every future was yielded: the pool and the file are closed, main returns.
Finish ==
    /\ pc = "collecting"
    /\ \A i \in DOMAIN fut : fut[i].st = "collected"
    /\ pc' = "done"
    /\ UNCHANGED <<in_srt, cfg, out_srt, blocks, done, batches, fut, pending,
                   next_write, written, prior, on_disk, nrun, naborts>>

\* An exception left the loop: the pool's shutdown waits for every work item,
\* the queued ones included, then the file is closed and the process fails.
AbortExit ==
    /\ pc = "aborting"
    /\ \A i \in DOMAIN fut : fut[i].st \in {"ok", "err", "raised", "collected"}
    /\ pc' = "aborted"
    /\ naborts' = naborts + 1
    /\ UNCHANGED <<in_srt, cfg, out_srt, blocks, done, batches, fut, pending,
                   next_write, written, prior, on_disk, nrun>>

Next ==
    \/ Start
    \/ \E i \in DOMAIN fut : WorkerStart(i)
    \/ \E i \in DOMAIN fut : BatchReturn(i)
    \/ \E i \in DOMAIN fut : FallbackReturn(i)
    \/ \E i \in DOMAIN fut : CallFail(i)
    \/ \E i \in DOMAIN fut : PauseDone(i)
    \/ \E i \in DOMAIN fut : Collect(i)
    \/ Finish
    \/ AbortExit

Spec == Init /\ [][Next]_vars

\* The steps of the pool threads and of main's loop in a run in which no call
\* fails: every request is answered.
RunStep ==
    \/ \E i \in DOMAIN fut : WorkerStart(i)
    \/ \E i \in DOMAIN fut : BatchReturn(i)
    \/ \E i \in DOMAIN fut : FallbackReturn(i)
    \/ \E i \in DOMAIN fut : PauseDone(i)
    \/ \E i \in DOMAIN fut : Collect(i)
    \/ Finish

LiveNext == Start \/ RunStep

\* Some step of the run is possible: the guards of the actions of RunStep.
run_step_possible ==
    \/ /\ pc \in {"collecting", "aborting"}
       /\ \E i \in DOMAIN fut :
             /\ fut[i].st = "queued"
             /\ \A j \in 1..(i - 1) : fut[j].st # "queued"
             /\ n_in_flight < cfg.max_workers
    \/ \E i \in DOMAIN fut : fut[i].st \in {"batch_call", "fallback_call", "pause"}
    \/ pc = "collecting" /\ \E i \in DOMAIN fut : fut[i].st \in {"ok", "err"}
    \/ pc = "collecting" /\ \A i \in DOMAIN fut : fut[i].st = "collected"

\* The threads are scheduled and the replies arrive: a run does not stay for
\* ever in states where a step of it is possible without taking one.  This is
\* weak fairness of RunStep, WF_vars(RunStep), written out with the guards of
\* RunStep in place of ENABLED <<RunStep>>_vars.
RunIsScheduled == []<><<RunStep>>_vars \/ []<>(~run_step_possible)

SpecLive == Init /\ [][LiveNext]_vars /\ RunIsScheduled

\* ------------------------------------------------------------------------
\* The planner alone: split_batches on every todo sequence and pair of limits
\* ------------------------------------------------------------------------

MaxPlanUnits == 4
MaxPlanBlocks == 3
MaxPlanChars == 110

\* Text sections of 0, 2, 5 and 10 characters: estimates 32, 34, 37 and 42.
PlanTexts == { <<>>, <<HI>>, <<HI, HI>>, << <<"0123456789">> >> }

PlanUnitSeqs ==
    UNION { { [k \in 1..n |-> SrtBlock(k, TIME, txt[k])] : txt \in [1..n -> PlanTexts] } :
              n \in 0..MaxPlanUnits }

PlanCfgs ==
    [max_blocks : -1..MaxPlanBlocks, max_chars : {-1, 0, 32, 64} \cup 66..MaxPlanChars,
     max_workers : {1}]

PlanInit ==
    /\ in_srt = <<>>
    /\ cfg \in PlanCfgs
    /\ blocks \in PlanUnitSeqs
    /\ Fresh

\* batches = split_batches(todo, max_blocks, max_chars), every block being todo.
Plan ==
    /\ pc = "idle"
    /\ batches' = split_batches(blocks, cfg.max_blocks, cfg.max_chars)
    /\ pc' = "planned"
    /\ UNCHANGED <<in_srt, cfg, out_srt, blocks, done, fut, pending, next_write,
                   written, prior, on_disk, nrun, naborts>>

PlanNext == Plan

SpecPlan == PlanInit /\ [][PlanNext]_vars

\* ------------------------------------------------------------------------
\* The parser alone: parse_srt on every short text over a small alphabet
\* ------------------------------------------------------------------------

MaxParseLines == 4

ParseLines == { <<>>, <<SP>>, <<"1">>, <<SP, "1", "2">>, TIME, HI }

ParseTexts ==
    { join_nl(ls) : ls \in UNION { [1..n -> ParseLines] : n \in 0..MaxParseLines } }

ParseInit ==
    /\ in_srt \in ParseTexts
    /\ cfg = [max_blocks |-> 1, max_chars |-> 1000, max_workers |-> 1]
    /\ blocks = <<>>
    /\ Fresh

\* blocks = parse_srt(read_text(in_srt)): the blocks, or an exception that ends
\* the process.
ParseInput ==
    /\ pc = "idle"
    /\ LET p == parse_srt(in_srt)
       IN  /\ blocks' = p.blocks
           /\ pc' = IF p.ok THEN "parsed" ELSE p.err
    /\ UNCHANGED <<in_srt, cfg, out_srt, done, batches, fut, pending, next_write,
                   written, prior, on_disk, nrun, naborts>>

ParseNext == ParseInput

SpecParse == ParseInit /\ [][ParseNext]_vars

\* ------------------------------------------------------------------------
\* The decoder alone: parse_zh_map on every short reply over a small alphabet
\* ------------------------------------------------------------------------

MaxDecodeParts == 5

\* A marker with three digits only, which MARK_RE does not match.
SHORT_MARK == <<MARK_OPEN, "0", "0", "1", MARK_CLOSE>>

DecodeParts == { mk_mark(1), mk_mark(2), SHORT_MARK, <<NL>>, <<SP>>, <<"a">>, <<FENCE>> }

DecodeTexts ==
    { flatten(ps) : ps \in UNION { [1..n -> DecodeParts] : n \in 0..MaxDecodeParts } }

DecodeInit ==
    /\ in_srt = <<>>
    /\ cfg = [max_blocks |-> 1, max_chars |-> 1000, max_workers |-> 1]
    /\ blocks = <<>>
    /\ Fresh

\* content = res["choices"][0]["message"]["content"]; zh_map = parse_zh_map(content):
\* the future keeps the reply and what was decoded from it.
Decode ==
    /\ pc = "idle"
    /\ \E content \in DecodeTexts :
           fut' = << [st |-> "decoded", content |-> content,
                      zh_map |-> parse_zh_map(content)] >>
    /\ pc' = "decoded"
    /\ UNCHANGED <<in_srt, cfg, out_srt, blocks, done, batches, pending, next_write,
                   written, prior, on_disk, nrun, naborts>>

DecodeNext == Decode

SpecDecode == DecodeInit /\ [][DecodeNext]_vars

\* ------------------------------------------------------------------------
\* Parser and writer together: the parsed units of a text written back
\* ------------------------------------------------------------------------

MaxRoundLines == 6

\* A blank line, an index line, an index line with a blank before it, a
\* timing line with blanks around it, a text line with blanks around it.
RoundLines ==
    { <<>>, <<"1">>, <<SP, "1", "2">>, <<SP>> \o TIME \o <<SP>>, <<SP, "h", "i", SP>> }

RoundTexts ==
    { join_nl(ls) : ls \in UNION { [1..n -> RoundLines] : n \in 0..MaxRoundLines } }

RoundInit ==
    /\ in_srt \in RoundTexts
    /\ cfg = [max_blocks |-> 1, max_chars |-> 1000, max_workers |-> 1]
    /\ blocks = <<>>
    /\ Fresh

\* The text that write_bi_srt_line gives for the blocks in turn, the
\* translation of a block being its own lines (identity) or nothing.
write_all(bs, identity) ==
    flatten([k \in 1..Len(bs) |->
                write_bi_srt_line(bs[k], IF identity THEN bs[k].lines ELSE <<>>)])

\* for b in blocks: write_bi_srt_line(f, b, zh_lines) on a new file.
WriteParsed ==
    /\ pc = "parsed"
    /\ \E identity \in BOOLEAN :
          /\ out_srt' = [exists |-> TRUE, text |-> write_all(blocks, identity)]
          /\ pc' = IF identity THEN "written_identity" ELSE "written_empty"
    /\ written' = ids_of(blocks)
    /\ UNCHANGED <<in_srt, cfg, blocks, done, batches, fut, pending, next_write,
                   prior, on_disk, nrun, naborts>>

RoundNext == ParseInput \/ WriteParsed

SpecRound == RoundInit /\ [][RoundNext]_vars

\* ------------------------------------------------------------------------
\* Properties
\* ------------------------------------------------------------------------

is_prefix(a, b) == Len(a) <= Len(b) /\ SubSeq(b, 1, Len(a)) = a

is_suffix(a, b) == Len(a) <= Len(b) /\ SubSeq(b, Len(b) - Len(a) + 1, Len(b)) = a

\* The highest of the ids, or zero when there is none.
highest(ids) ==
    IF ids = <<>> THEN 0
    ELSE CHOOSE m \in {ids[k] : k \in 1..Len(ids)} : \A k \in 1..Len(ids) : ids[k] <= m

\* The units of the parsed input with an id above d, in input order.
units_above(d) == SelectSeq(blocks, LAMBDA b : b.idx > d)

\* C1: whatever the completion order, the units handed to the writer in a run
\* are a prefix of the todo sequence in input order, namely the units of the
\* batches 0..next_write-1; their ids are strictly ascending; and a run that
\* reaches Done has written the whole todo sequence.
OrderedWrites ==
    pc \in {"collecting", "aborting", "aborted", "done"} =>
        /\ is_prefix(written, ids_of(units_above(done)))
        /\ written = ids_of(flatten(SubSeq(batches, 1, next_write)))
        /\ \A k \in 1..(Len(written) - 1) : written[k] < written[k + 1]
        /\ (pc = "done" => written = ids_of(units_above(done)))

\* Batch 2 was buffered while batch 1 is still missing, and only batch 0 has
\* been written.
OrderedWritesWitness ==
    /\ Len(batches) = 3
    /\ next_write = 1
    /\ DOMAIN pending = {2}
    /\ written = ids_of(batches[1])

\* C2 (as claimed): when a run has aborted on a transport failure and a later
\* run reaches Done, the output file holds every input unit exactly once, each
\* as a complete block, in input order.
ResumeLosesNothing ==
    (pc = "done" /\ naborts >= 1) =>
        LET inp == parse_srt(in_srt).blocks
            out == parse_srt(out_srt.text)
        IN  /\ on_disk = ids_of(inp)
            /\ out.ok
            /\ Len(out.blocks) = Len(inp)
            /\ \A k \in 1..Len(inp) :
                  /\ out.blocks[k].idx = inp[k].idx
                  /\ out.blocks[k].time = inp[k].time
                  /\ is_suffix(inp[k].lines, out.blocks[k].lines)

\* C3: the planned batches, concatenated in batch order then intra-batch
\* order, are the todo sequence exactly, and no batch is empty.
PlanCoversTodo ==
    pc = "planned" =>
        /\ flatten(batches) = blocks
        /\ \A i \in 1..Len(batches) : batches[i] # <<>>

\* Four units were planned into three batches.
PlanCoversTodoWitness ==
    /\ pc = "planned"
    /\ Len(blocks) = 4
    /\ Len(batches) = 3
    /\ \E i \in 1..Len(batches) : Len(batches[i]) = 2

\* The accumulated character estimate of a batch.
RECURSIVE batch_estimate(_)
batch_estimate(batch) ==
    IF batch = <<>> THEN 0
    ELSE char_len(join_nl(Head(batch).lines)) + 32 + batch_estimate(Tail(batch))

\* C4 (as claimed): for all limits, no batch holds more units than max_blocks
\* and no batch of two or more units has an estimate above max_chars.
BatchBoundsAllLimits ==
    pc = "planned" =>
        \A i \in 1..Len(batches) :
            /\ Len(batches[i]) <= cfg.max_blocks
            /\ (Len(batches[i]) >= 2 => batch_estimate(batches[i]) <= cfg.max_chars)

\* C4 (amended): no batch holds more units than max_blocks, or than one unit
\* when max_blocks is below one; and no batch of two or more units has an
\* estimate above max_chars.
BatchBounds ==
    pc = "planned" =>
        \A i \in 1..Len(batches) :
            /\ Len(batches[i]) <= (IF cfg.max_blocks >= 1 THEN cfg.max_blocks ELSE 1)
            /\ (Len(batches[i]) >= 2 => batch_estimate(batches[i]) <= cfg.max_chars)

\* One batch is full by count with an estimate that is the budget exactly,
\* and a later one was closed by the character budget before it was full.
BatchBoundsWitness ==
    /\ pc = "planned"
    /\ cfg.max_blocks = 2
    /\ \E i \in 1..Len(batches) :
          Len(batches[i]) = 2 /\ batch_estimate(batches[i]) = cfg.max_chars
    /\ \E i \in 1..(Len(batches) - 1) :
          /\ Len(batches[i]) = 1
          /\ batch_estimate(batches[i]) + batch_estimate(<<batches[i + 1][1]>>) > cfg.max_chars

\* How often translate_one was invoked for unit id by the worker of future f.
fallbacks_for(f, id) == Cardinality({j \in 1..Len(f.ones) : f.ones[j].idx = id})

\* C5: when translate_batch has returned, zh_map has an entry for every unit
\* of the batch; translate_one was invoked once for each id the reply lacked
\* and never for an id it held, and what it returned (nothing, when the reply
\* had no content) is that id's entry.  So every buffered result holds every
\* id of its batch and the drain never raises: a run aborts only on a
\* transport failure.
FallbackResolves ==
    /\ \A i \in DOMAIN fut : fut[i].st \in {"pause", "ok"} =>
          /\ \A k \in 1..Len(batches[i]) :
                LET id == batches[i][k].idx
                IN  /\ id \in DOMAIN fut[i].zh_map
                    /\ fallbacks_for(fut[i], id) = (IF id \in fut[i].got THEN 0 ELSE 1)
          /\ \A j \in 1..Len(fut[i].ones) :
                /\ \E k \in 1..Len(batches[i]) : batches[i][k].idx = fut[i].ones[j].idx
                /\ fut[i].ones[j].idx \in DOMAIN fut[i].zh_map
                /\ fut[i].zh_map[fut[i].ones[j].idx] = fut[i].ones[j].lines
    /\ \A k \in DOMAIN pending :
          \A j \in 1..Len(batches[k + 1]) : batches[k + 1][j].idx \in DOMAIN pending[k]
    /\ (pc \in {"aborting", "aborted"} => \E i \in DOMAIN fut : fut[i].st = "raised")

\* A batch of two units: the reply held the second only, and the single-unit
\* request for the first, which has text, came back without content.
FallbackResolvesWitness ==
    \E i \in DOMAIN fut :
        /\ fut[i].st = "ok"
        /\ Len(batches[i]) = 2
        /\ batches[i][2].idx \in fut[i].got
        /\ batches[i][1].idx \notin fut[i].got
        /\ batches[i][1].lines # <<>>
        /\ fut[i].ones = <<[idx |-> batches[i][1].idx, lines |-> <<>>]>>
        /\ fut[i].zh_map[batches[i][1].idx] = <<>>

\* The ids sent to the service by the worker of future i so far.
sent_ids(i) ==
    (IF fut[i].st \in {"queued", "collected"} THEN {}
     ELSE {batches[i][k].idx : k \in 1..Len(batches[i])})
        \cup {fut[i].ones[j].idx : j \in 1..Len(fut[i].ones)}

\* C6: with d = done, the resume point main read from the output file as the
\* run found it, the planned batches hold exactly the input units with an id
\* above d, and no unit with an id of d or less is sent to the service or
\* written.
ResumeSkipsDone ==
    pc \in {"collecting", "aborting", "aborted", "done"} =>
        /\ flatten(batches) = units_above(done)
        /\ \A i \in DOMAIN fut : \A id \in sent_ids(i) : id > done
        /\ \A k \in 1..Len(written) : written[k] > done

\* A rerun over a file with a resume point of one or more has written a unit
\* and left an earlier unit of the input alone.
ResumeSkipsDoneWitness ==
    /\ prior.exists
    /\ done >= 1
    /\ written # <<>>
    /\ \E k \in 1..Len(blocks) : blocks[k].idx <= done
    /\ \E i \in DOMAIN fut : fut[i].ones # <<>>

\* C7 (as claimed): a run started with an output file on disk only appends:
\* the file as the run found it is a prefix of the file at every later point.
AppendOnly ==
    (pc \in {"collecting", "aborting", "aborted", "done"} /\ prior.exists) =>
        is_prefix(prior.text, out_srt.text)

\* C8 (as claimed): on any file the writer produced, the resume locator
\* returns the highest unit id written to it, and zero when there is none.
LocatorFindsLastWritten ==
    out_srt.exists => last_idx_in_srt(out_srt.text) = highest(on_disk)

\* C9: a failed call is not retried, and once main has seen the failed future
\* nothing more is written in that run and the run does not reach Done.
TransportFailureIsFatal ==
    /\ [][ (nrun' = nrun /\ \E i \in DOMAIN fut : fut'[i].st = "raised")
              => /\ out_srt' = out_srt
                 /\ written' = written
                 /\ pc' \in {"aborting", "aborted"} ]_vars
    /\ [][ nrun' = nrun
              => \A i \in DOMAIN fut :
                    fut[i].st \in {"err", "raised"} => fut'[i].st \in {"err", "raised"} ]_vars
    /\ [](pc = "done" => \A i \in DOMAIN fut : fut[i].st = "collected")

\* The run is over on the failure of batch j: a batch with a lower index
\* completed without being yielded, and a buffered result was never written.
TransportFailureIsFatalWitness ==
    /\ pc = "aborted"
    /\ DOMAIN pending # {}
    /\ \E i, j \in DOMAIN fut : i < j /\ fut[i].st = "ok" /\ fut[j].st = "raised"
    /\ Len(written) < Len(flatten(batches))

\* The shape of the input format: blank lines, then blocks of a numeric index
\* line, a timing line holding the arrow, and text lines up to a blank line.
RECURSIVE well_formed_from(_, _, _)
well_formed_from(lines, i, in_text) ==
    IF i > Len(lines) THEN TRUE
    ELSE IF strip(lines[i]) = <<>> THEN well_formed_from(lines, i + 1, FALSE)
    ELSE IF in_text THEN well_formed_from(lines, i + 1, TRUE)
    ELSE /\ isdigit(strip(lines[i]))
         /\ i + 1 <= Len(lines)
         /\ has_arrow(lines[i + 1])
         /\ well_formed_from(lines, i + 2, TRUE)

\* C10 (as claimed): an input with a non-numeric index line, or with an index
\* line followed by a blank line, the end of input or text instead of a timing
\* line, is never parsed into units.
MalformedInputRejected ==
    pc = "parsed" => well_formed_from(splitlines(in_srt), 1, FALSE)

\* The positions of the marker tokens of a text.
marks_of(s) == {p \in 1..Len(s) : mark_at(s, p)}

\* The id the marker at p carries.
id_at(s, p) == int_of(SubSeq(s, p + 1, p + 6))

\* Where the marker after the one at p starts, or the end of the text.
next_mark(s, p) ==
    IF \E q \in marks_of(s) : q > p
    THEN CHOOSE q \in marks_of(s) : q > p /\ \A r \in marks_of(s) : r > p => q <= r
    ELSE Len(s) + 1

\* The text strictly between the marker at p and the next one: its non-blank
\* lines, trimmed.
segment_lines(s, p) ==
    LET kept == SelectSeq(splitlines(SubSeq(s, p + 8, next_mark(s, p) - 1)), not_blank_line)
    IN  [k \in 1..Len(kept) |-> IF k = 1 THEN strip(kept[k]) ELSE rstrip(kept[k])]

\* The reply without its code-fence lines.
without_fences(s) == join_nl(SelectSeq(splitlines(s), not_fence_line))

\* C11 (as claimed): with the code-fence lines removed from the reply, decoding
\* yields one entry per marker id present, and the entry of every marker is
\* the text between it and the next marker (or the end), blank lines removed;
\* an id without a marker is absent.
DecodeEveryMarker ==
    pc = "decoded" =>
        LET cl == without_fences(fut[1].content)
            m  == fut[1].zh_map
        IN  /\ DOMAIN m = {id_at(cl, p) : p \in marks_of(cl)}
            /\ \A p \in marks_of(cl) : m[id_at(cl, p)] = segment_lines(cl, p)

\* C11 (amended): with the code-fence lines removed from the reply, decoding
\* yields one entry per marker id present; the entry of an id is the text
\* between the last marker carrying that id and the next marker (or the end),
\* blank lines removed; an id without a marker is absent.
DecodeLastMarker ==
    pc = "decoded" =>
        LET cl == without_fences(fut[1].content)
            m  == fut[1].zh_map
        IN  /\ DOMAIN m = {id_at(cl, p) : p \in marks_of(cl)}
            /\ \A p \in marks_of(cl) :
                  (\A q \in marks_of(cl) : id_at(cl, q) = id_at(cl, p) => q <= p)
                      => m[id_at(cl, p)] = segment_lines(cl, p)

\* The reply repeats marker 1: the text after its first occurrence is dropped,
\* the entry of 1 is the (empty) text after the second.
DecodeLastMarkerWitness ==
    /\ pc = "decoded"
    /\ fut[1].content = mk_mark(1) \o <<"a">> \o mk_mark(1) \o mk_mark(2) \o <<"a">>
    /\ fut[1].zh_map = (1 :> <<>> @@ 2 :> << <<"a">> >>)

\* C12: a run that finds no input unit above its resume point is in Done at
\* once: it has planned no batch, submitted none (so no call is made), handed
\* nothing to the writer, and the output file is as the run found it.
NothingTodoIsDone ==
    (pc # "idle" /\ units_above(done) = <<>>) =>
        /\ pc = "done"
        /\ batches = <<>>
        /\ fut = <<>>
        /\ written = <<>>
        /\ out_srt = prior

\* A second run over the complete output of the first: nothing is todo.
NothingTodoIsDoneWitness ==
    /\ pc = "done"
    /\ nrun = 2
    /\ units_above(done) = <<>>
    /\ Len(blocks) >= 2
    /\ prior.exists
    /\ on_disk = ids_of(blocks)
    /\ out_srt = prior

\* The batches whose worker is between the start of translate_batch and the
\* end of the pause of run_batch.
running_batches ==
    {i \in DOMAIN fut : fut[i].st \notin {"queued", "ok", "err", "raised", "collected"}}

\* C13: at most max_workers batches are in flight at any time, although main
\* has submitted every planned batch to the pool before it collects any.
InFlightBounded ==
    /\ Cardinality(running_batches) <= cfg.max_workers
    /\ (pc \in {"collecting", "aborting"} => Len(fut) = Len(batches))

\* Three batches were submitted to a pool of two: two are in flight, one in a
\* fallback call, and the third waits in the queue.
InFlightBoundedWitness ==
    /\ pc = "collecting"
    /\ cfg.max_workers = 2
    /\ Len(batches) = 3
    /\ Cardinality(running_batches) = 2
    /\ fut[3].st = "queued"
    /\ \E i \in DOMAIN fut : fut[i].st = "fallback_call"

\* C14: when every call returns and the threads are scheduled fairly, a run
\* that has submitted its batches reaches Done, never being stuck on the way
\* (some thread can always move); and at Done every planned batch was
\* collected and flushed: the whole todo sequence is written and the pending
\* buffer is empty.
RunReachesDone ==
    /\ (pc = "collecting") ~> (pc = "done")
    /\ [](pc = "collecting" => run_step_possible)
    /\ [](pc = "done" =>
            /\ \A i \in DOMAIN fut : fut[i].st = "collected"
            /\ next_write = Len(batches)
            /\ DOMAIN pending = {}
            /\ written = ids_of(flatten(batches)))

\* A run of three batches is in Done with everything written, one unit of it
\* translated by a fallback call.
RunReachesDoneWitness ==
    /\ pc = "done"
    /\ Len(batches) = 3
    /\ next_write = 3
    /\ DOMAIN pending = {}
    /\ Len(written) = 3

well_formed(s) == well_formed_from(splitlines(s), 1, FALSE)

\* C15 (as claimed): a well-formed input parsed and written back under the
\* identity translation parses to the same blocks: same ids in the same
\* order, same timing strings, same text lines.
RoundTripSameBlocks ==
    (pc = "written_identity" /\ well_formed(in_srt)) =>
        LET out == parse_srt(out_srt.text)
        IN  out.ok /\ out.blocks = blocks

\* C15 (amended): a well-formed input parsed and written back parses to blocks
\* with the same ids in the same order and the same timing strings; the text
\* lines of a block are those of the input block twice over under the identity
\* translation (the translated copy above the original), and those of the
\* input block under an empty translation.
RoundTripBilingual ==
    (pc \in {"written_identity", "written_empty"} /\ well_formed(in_srt)) =>
        LET out == parse_srt(out_srt.text)
        IN  /\ out.ok
            /\ Len(out.blocks) = Len(blocks)
            /\ \A k \in 1..Len(blocks) :
                  /\ out.blocks[k].idx = blocks[k].idx
                  /\ out.blocks[k].time = blocks[k].time
                  /\ out.blocks[k].lines =
                        (IF pc = "written_identity" THEN blocks[k].lines \o blocks[k].lines
                         ELSE blocks[k].lines)

\* Two units, the first with a text line, the second with an index line that
\* starts with a blank, were written back under the identity translation.
RoundTripBilingualWitness ==
    /\ pc = "written_identity"
    /\ well_formed(in_srt)
    /\ ids_of(blocks) = <<1, 12>>
    /\ blocks[1].lines = << <<SP, "h", "i", SP>> >>
    /\ blocks[1].time = TIME

\* The lines of one output block: id, timing, translation, original, blank.
block_layout(b, zh_lines) ==
    << str_of(b.idx), b.time >> \o zh_lines \o b.lines \o << <<>> >>

\* The translation main holds for the units of batch k (0-based) when the
\* future of batch i is being collected.
zh_map_of(k, i) == IF k = i - 1 THEN fut[i].zh_map ELSE pending[k]

\* The lines the drain of a step has to append: the blocks of the batches
\* from the old cursor up to the new one, in order.
RECURSIVE layout_from(_, _, _)
layout_from(k, last, i) ==
    IF k > last THEN <<>>
    ELSE flatten([j \in 1..Len(batches[k + 1]) |->
                     block_layout(batches[k + 1][j], zh_map_of(k, i)[batches[k + 1][j].idx])])
             \o layout_from(k + 1, last, i)

\* C16: whenever a run writes, the file grows by one block per unit written:
\* the id line, the timing line, the translated lines (none for an empty
\* translation), the original lines (none for a unit without text), one blank
\* line, in this order; the translation is above the original.
WriterLayout ==
    [][ (nrun' = nrun /\ out_srt' # out_srt) =>
            \E i \in DOMAIN fut :
                /\ fut[i].st = "ok"
                /\ fut'[i].st = "collected"
                /\ is_prefix(out_srt.text, out_srt'.text)
                /\ splitlines(SubSeq(out_srt'.text, Len(out_srt.text) + 1,
                                     Len(out_srt'.text)))
                       = layout_from(next_write, next_write' - 1, i) ]_vars

\* The output of a finished run: unit 1, whose translation came back empty,
\* is written with its original line only; unit 2 has its translation above
\* its original line.
WriterLayoutWitness ==
    /\ pc = "done"
    /\ nrun = 1
    /\ splitlines(out_srt.text) =
           << <<"1">>, TIME, HI, <<>>, <<"2">>, TIME, <<"z", "2">>, HI, <<>> >>

\* Adding unit u to the non-empty batch cur would break a limit: cur already
\* holds max_blocks units, or its estimate with that of u is over max_chars.
breaks_limit(cur, u) ==
    \/ Len(cur) >= cfg.max_blocks
    \/ batch_estimate(cur) + batch_estimate(<<u>>) > cfg.max_chars

\* C17: the plan is the greedy one.  A batch ends before unit u exactly when
\* it is non-empty and adding u would break a limit: every batch but the last
\* could not take the first unit of the next, and inside a batch every unit
\* after the first was added without breaking a limit.  A unit whose own
\* estimate is over the budget is still planned, at the head of a batch.
GreedyPlan ==
    pc = "planned" =>
        /\ \A i \in 1..(Len(batches) - 1) :
              batches[i] # <<>> /\ breaks_limit(batches[i], batches[i + 1][1])
        /\ \A i \in 1..Len(batches) : \A j \in 2..Len(batches[i]) :
              ~breaks_limit(SubSeq(batches[i], 1, j - 1), batches[i][j])
        /\ \A k \in 1..Len(blocks) :
              batch_estimate(<<blocks[k]>>) > cfg.max_chars =>
                  \E i \in 1..Len(batches) : batches[i][1] = blocks[k]

\* With room for three units per batch and a budget of one unit without
\* text, a unit over the budget arrived at an empty batch and sits alone in
\* it, and the batch before it was closed by the budget with one unit.
GreedyPlanWitness ==
    /\ pc = "planned"
    /\ cfg.max_blocks = 3
    /\ Len(blocks) = 4
    /\ \E i \in 2..Len(batches) :
          /\ Len(batches[i]) = 1
          /\ batch_estimate(batches[i]) > cfg.max_chars
          /\ Len(batches[i - 1]) = 1
          /\ batch_estimate(batches[i - 1]) <= cfg.max_chars

\* What the run has appended to the output file since it opened it.
appended_text ==
    LET base == open_text(done, prior)
    IN  SubSeq(out_srt.text, Len(base) + 1, Len(out_srt.text))

\* C18: at every point of a run, the point of an abort included, the blocks
\* the run has appended to the file are the units of batches 0..next_write-1
\* and no more, a prefix of the todo sequence without a gap; a completed batch
\* that waits in pending for an earlier one has no unit in the file.
ContiguousPrefix ==
    pc \in {"collecting", "aborting", "aborted", "done"} =>
        LET app   == parse_srt(appended_text)
            units == flatten(SubSeq(batches, 1, next_write))
        IN  /\ is_prefix(open_text(done, prior), out_srt.text)
            /\ app.ok
            /\ Len(app.blocks) = Len(units)
            /\ \A k \in 1..Len(units) :
                  /\ app.blocks[k].idx = units[k].idx
                  /\ app.blocks[k].time = units[k].time
                  /\ is_suffix(units[k].lines, app.blocks[k].lines)
            /\ is_prefix(units, units_above(done))
            /\ \A k \in DOMAIN pending : \A j \in 1..Len(batches[k + 1]) :
                  \A n \in 1..Len(app.blocks) : app.blocks[n].idx # batches[k + 1][j].idx

\* A run has aborted with the first batch in the file and the third batch
\* completed but never written, the second having failed.
ContiguousPrefixWitness ==
    /\ pc = "aborted"
    /\ Len(batches) = 3
    /\ next_write = 1
    /\ fut[2].st = "raised"
    /\ DOMAIN pending = {2}
    /\ ids_of(parse_srt(appended_text).blocks) = ids_of(batches[1])

\* C19: after every drain the cursor next_write is no key of pending, every
\* key of pending is above the cursor, and the cursor is at most the number
\* of planned batches.  A sequence index enters pending only when main takes
\* the result of its future, which it does once; it leaves pending only when
\* the cursor passes it, and the cursor never goes back: so every index is
\* inserted at most once and removed at most once.
CursorAndPending ==
    /\ [](/\ next_write \notin DOMAIN pending
          /\ next_write <= Len(batches)
          /\ \A k \in DOMAIN pending :
                k > next_write /\ k < Len(batches) /\ fut[k + 1].st = "collected"
          /\ \A k \in 0..(next_write - 1) : fut[k + 1].st = "collected")
    /\ [][ nrun' = nrun =>
              /\ next_write' >= next_write
              /\ \A i \in DOMAIN fut : fut[i].st = "collected" => fut'[i].st = "collected"
              /\ \A k \in DOMAIN pending' \ DOMAIN pending :
                    fut[k + 1].st = "ok" /\ fut'[k + 1].st = "collected"
              /\ \A k \in DOMAIN pending \ DOMAIN pending' :
                    next_write <= k /\ k < next_write' ]_vars

\* The second and third batch wait in pending for the first, whose future
\* has completed and is about to be taken: the next drain writes all three.
CursorAndPendingWitness ==
    /\ pc = "collecting"
    /\ next_write = 0
    /\ DOMAIN pending = {1, 2}
    /\ fut[1].st = "ok"

\* The translations unit id may get from its own batch reply or its own
\* single-unit call: the service's line for it, or nothing.
own_translations(id) == { <<>>, << zh_of(id) >> }

\* C20: whatever the replies hold (a marker of a unit outside the batch, a
\* repeated marker, markers in another order, no marker), the blocks a run
\* appends are the todo units in input order, each once, none skipped, all of
\* them at Done; the translation above a unit's original lines, and the one
\* held for it by a worker or in pending, is one its own batch reply or its
\* own single-unit call gave for it.
RepliesCannotReorder ==
    pc \in {"collecting", "aborting", "aborted", "done"} =>
        LET app  == parse_srt(appended_text).blocks
            todo == units_above(done)
        IN  /\ Len(app) <= Len(todo)
            /\ (pc = "done" => Len(app) = Len(todo))
            /\ \A k \in 1..Len(app) :
                  /\ app[k].idx = todo[k].idx
                  /\ \E zh \in own_translations(todo[k].idx) :
                        app[k].lines = zh \o todo[k].lines
            /\ \A i \in DOMAIN fut : fut[i].st \in {"pause", "ok"} =>
                  \A j \in 1..Len(batches[i]) :
                      fut[i].zh_map[batches[i][j].idx] \in own_translations(batches[i][j].idx)
            /\ \A k \in DOMAIN pending : \A j \in 1..Len(batches[k + 1]) :
                  pending[k][batches[k + 1][j].idx] \in own_translations(batches[k + 1][j].idx)

\* The reply to the second batch, buffered in pending while the first batch
\* is outstanding, holds an entry for the unit of the third batch; the third
\* batch's worker holds its own translation of that unit.
RepliesCannotReorderWitness ==
    /\ pc = "collecting"
    /\ Len(batches) = 3
    /\ next_write = 0
    /\ 1 \in DOMAIN pending
    /\ batches[3][1].idx \in DOMAIN pending[1]
    /\ pending[1][batches[3][1].idx] = << <<"x">> >>
    /\ fut[3].st = "ok"
    /\ fut[3].zh_map[batches[3][1].idx] = << zh_of(batches[3][1].idx) >>

====
